---- MODULE Spec2Model ----
(***************************************************************************)
(* Push notification dispatch (service/pusher) and event relation /        *)
(* soft-failure tracking (service/rooms/pdu_metadata) of conduit.          *)
(*                                                                         *)
(* Spec         one send_push_notice call, step by step, with every outcome *)
(*              of the lookups and of the gateway it can meet.              *)
(* SpecTracker  the pdu_metadata service's operations on the two flags of   *)
(*              the relation store.                                        *)
(* SpecRelations  its add_relation, with the short id allocator.           *)
(***************************************************************************)
EXTENDS Integers, Sequences, FiniteSets, TLC

\* ------------------------------------------------------------------ bounds

\* Longest action list Ruleset::get_actions hands back.
MaxActions == 3
\* Event ids known to the relation tracker: 1..MaxEvents.
MaxEvents == 2
\* Longest slice handed to mark_as_referenced.
MaxBatch == 2

\* ------------------------------------------------------------- option type

None == <<>>
Some(x) == <<x>>

\* ------------------------------------------------------------ push actions

\* ruma::push::Tweak: Highlight(bool) and Sound(String).
Tweaks == {"Highlight(true)", "Highlight(false)", "Sound"}

\* ruma::push::Action, as the fold of send_push_notice tells its values apart.
Notify == [tag |-> "Notify", tweak |-> "-"]
DontNotify == [tag |-> "DontNotify", tweak |-> "-"]
Coalesce == [tag |-> "Coalesce", tweak |-> "-"]
SetTweak(t) == [tag |-> "SetTweak", tweak |-> t]

Actions == {Notify, DontNotify, Coalesce} \cup {SetTweak(t) : t \in Tweaks}

\* The slices Ruleset::get_actions can return.
ActionLists == UNION {[1..n -> Actions] : n \in 0..MaxActions}

\* Notify, DontNotify and Coalesce: every action that is not a SetTweak.
NotifyClass(a) == a.tag # "SetTweak"

RECURSIVE CountNotifyClass(_)
CountNotifyClass(s) ==
    IF s = <<>> THEN 0
    ELSE (IF NotifyClass(Head(s)) THEN 1 ELSE 0) + CountNotifyClass(Tail(s))

RECURSIVE TweaksOf(_)
TweaksOf(s) ==
    IF s = <<>> THEN <<>>
    ELSE IF Head(s).tag = "SetTweak"
         THEN <<Head(s).tweak>> \o TweaksOf(Tail(s))
         ELSE TweaksOf(Tail(s))

\* --------------------------------------------------------- pushers, events

LegacySuffix == "/_matrix/push/v1/notify"

\* A gateway url is a base followed by path segments.
Urls == {<<"https://gw", LegacySuffix>>, <<"gw with spaces", LegacySuffix>>}

\* Option<PushFormat>: PushFormat is EventIdOnly or a custom string.
Formats == {None, Some("event_id_only"), Some("custom")}

HttpPushers ==
    [kind : {"Http"}, url : Urls, format : Formats,
     app_id : {"app"}, pushkey : {"key"}, default_payload : {"payload"}]

OtherPushers ==
    [kind : {"Email", "Custom"}, url : {<<>>}, format : {None},
     app_id : {"app"}, pushkey : {"key"}, default_payload : {"-"}]

Pushers == HttpPushers \cup OtherPushers

\* PduEvent, as far as send_notice reads it.
Pdus ==
    [event_id : {"$ev"}, room_id : {"!room"}, sender : {"@sender"},
     kind : {"m.room.encrypted", "m.room.message"}, state_key : {None}]
    \cup
    [event_id : {"$ev"}, room_id : {"!room"}, sender : {"@sender"},
     kind : {"m.room.member"}, state_key : {Some("@sender"), Some("@other")}]

UnreadCounts == {0, 1}

\* ------------------------------------------------------------- the gateway

Statuses == {200, 204, 404, 500}

BodyAccepted == "{rejected:[]}"
BodyRejected == "{rejected:[key]}"
BodyGarbage == "<html>"
BodyEmpty == ""

\* What a gateway can put in a response body.
Bodies == {BodyAccepted, BodyRejected, BodyGarbage}

\* serde_json into send_event_notification::v1::Response.
Decodable(body) == body \in {BodyAccepted, BodyRejected}

Decode(body) ==
    IF body = BodyAccepted THEN "Response{rejected:[]}"
    ELSE "Response{rejected:[key]}"

\* -------------------------------------------------------------- results

Ok(v) == [tag |-> "Ok", kind |-> "-", value |-> v]
Err(kind, msg) == [tag |-> "Err", kind |-> kind, value |-> msg]

\* Error::bad_database
bad_database(msg) == Err("BadDatabase", msg)
\* Error::BadServerResponse
BadServerResponse(msg) == Err("BadServerResponse", msg)
\* Error::ReqwestError, by From<reqwest::Error>
ReqwestError == Err("ReqwestError", "connection")
\* What a failing storage call of a collaborator returns.
StorageError == Err("Database", "storage")

MalformedPushrule == "Malformed pushrule contains more than one of these actions"

VARIABLES
    pc,             \* where the send_push_notice call stands
    unread, pusher, pdu,   \* its arguments
    actions,        \* the slice get_actions returned, None before it has
    idx,            \* the next action of the for loop
    notify,         \* Option<bool>
    tweaks,         \* Vec<Tweak>
    notifi,         \* the Notification send_notice builds
    requests,       \* the requests executed against the gateway, in order
    response,       \* what the http client came back with
    sent,           \* what send_request returned
    result,         \* what send_push_notice returned
    shorteventid,   \* event id -> short id, 0 when none is allocated
    relations,      \* the edges of the relation store
    referencedevents,   \* the (room, event) pairs marked referenced
    softfailedeventids, \* the events marked soft-failed
    call,           \* the tracker operation called last
    ret,            \* and what it returned
    pushers         \* the pushers the pusher store holds for the user

dispatch_vars ==
    <<pc, unread, pusher, pdu, actions, idx, notify, tweaks, notifi, requests,
      response, sent, result>>

tracker_vars ==
    <<shorteventid, relations, referencedevents, softfailedeventids, call, ret>>

vars == <<dispatch_vars, tracker_vars, pushers>>


\* ------------------------------------------------------------------- Init

Events == 1..MaxEvents
Rooms == {"!a", "!b"}

NoCall == [op |-> "none", room |-> "-", ids |-> <<>>]

Init ==
    /\ pc = "power_levels"
    /\ unread \in UnreadCounts
    /\ pusher \in Pushers
    /\ pdu \in Pdus
    /\ actions = None
    /\ idx = 1
    /\ notify = None
    /\ tweaks = <<>>
    /\ notifi = None
    /\ requests = <<>>
    /\ response = None
    /\ sent = None
    /\ result = None
    /\ shorteventid = [e \in Events |-> 0]
    /\ relations = {}
    /\ referencedevents = {}
    /\ softfailedeventids = {}
    /\ call = NoCall
    /\ ret = None
    /\ pushers = {pusher}

\* ------------------------------------------------------- send_push_notice

\* return Err(e) / return Ok(()) of send_push_notice
Return(r) ==
    /\ result' = Some(r)
    /\ pc' = "done"

\* room_state_get(room, RoomPowerLevels, "")?, then serde_json::from_str of its
\* content: a failing lookup and an unparsable event both end the call.
room_state_get_power_levels ==
    /\ pc = "power_levels"
    /\ \E stored \in {"error", "absent", "valid", "invalid"} :
          \/ /\ stored = "error"
             /\ Return(StorageError)
          \/ /\ stored = "invalid"
             /\ Return(bad_database("invalid m.room.power_levels event"))
          \/ /\ stored \in {"absent", "valid"}
             /\ pc' = "get_actions"
             /\ UNCHANGED result
    /\ UNCHANGED <<unread, pusher, pdu, actions, idx, notify, tweaks, notifi,
                   requests, response, sent>>
    /\ UNCHANGED <<tracker_vars, pushers>>

\* get_actions: the display name lookup of the context may fail; otherwise the
\* ruleset's matching yields a slice of actions.
get_actions ==
    /\ pc = "get_actions"
    /\ \/ /\ Return(StorageError)
          /\ UNCHANGED <<actions, idx>>
       \/ /\ \E list \in ActionLists : actions' = Some(list)
          /\ idx' = 1
          /\ pc' = "fold"
          /\ UNCHANGED result
    /\ UNCHANGED <<unread, pusher, pdu, notify, tweaks, notifi, requests,
                   response, sent>>
    /\ UNCHANGED <<tracker_vars, pushers>>

\* fold with the second notify-class action overriding the first instead of
\* ending the call.
fold_last_wins ==
    /\ pc = "fold"
    /\ idx <= Len(actions[1])
    /\ LET action == actions[1][idx] IN
       IF action.tag = "SetTweak"
       THEN /\ tweaks' = Append(tweaks, action.tweak)
            /\ idx' = idx + 1
            /\ UNCHANGED <<notify, pc, result>>
       ELSE /\ notify' = Some(action.tag = "Notify")
            /\ idx' = idx + 1
            /\ UNCHANGED <<tweaks, pc, result>>
    /\ UNCHANGED <<unread, pusher, pdu, actions, notifi, requests, response, sent>>
    /\ UNCHANGED <<tracker_vars, pushers>>

\* fold with the SetTweak arm falling through to the decision (no continue).
fold_no_continue ==
    /\ pc = "fold"
    /\ idx <= Len(actions[1])
    /\ LET action == actions[1][idx] IN
       IF notify # None
       THEN /\ Return(bad_database(MalformedPushrule))
            /\ tweaks' = IF action.tag = "SetTweak"
                         THEN Append(tweaks, action.tweak) ELSE tweaks
            /\ UNCHANGED <<notify, idx>>
       ELSE /\ notify' = Some(action.tag = "Notify")
            /\ tweaks' = IF action.tag = "SetTweak"
                         THEN Append(tweaks, action.tweak) ELSE tweaks
            /\ idx' = idx + 1
            /\ UNCHANGED <<pc, result>>
    /\ UNCHANGED <<unread, pusher, pdu, actions, notifi, requests, response, sent>>
    /\ UNCHANGED <<tracker_vars, pushers>>

\* fold pushing a tweak only while no notify-class action has been seen.
fold_drops_after_notify ==
    /\ pc = "fold"
    /\ idx <= Len(actions[1])
    /\ LET action == actions[1][idx] IN
       IF action.tag = "SetTweak"
       THEN /\ tweaks' = IF notify = None THEN Append(tweaks, action.tweak) ELSE tweaks
            /\ idx' = idx + 1
            /\ UNCHANGED <<notify, pc, result>>
       ELSE IF notify # None
            THEN /\ Return(bad_database(MalformedPushrule))
                 /\ UNCHANGED <<notify, tweaks, idx>>
            ELSE /\ notify' = Some(action.tag = "Notify")
                 /\ idx' = idx + 1
                 /\ UNCHANGED <<tweaks, pc, result>>
    /\ UNCHANGED <<unread, pusher, pdu, actions, notifi, requests, response, sent>>
    /\ UNCHANGED <<tracker_vars, pushers>>

\* One iteration of the for loop over the actions.
fold ==
    /\ pc = "fold"
    /\ idx <= Len(actions[1])
    /\ LET action == actions[1][idx] IN
       IF action.tag = "SetTweak"
       THEN /\ tweaks' = Append(tweaks, action.tweak)
            /\ idx' = idx + 1
            /\ UNCHANGED <<notify, pc, result>>
       ELSE IF notify # None
            THEN /\ Return(bad_database(MalformedPushrule))
                 /\ UNCHANGED <<notify, tweaks, idx>>
            ELSE /\ notify' = Some(action.tag = "Notify")
                 /\ idx' = idx + 1
                 /\ UNCHANGED <<tweaks, pc, result>>
    /\ UNCHANGED <<unread, pusher, pdu, actions, notifi, requests, response, sent>>
    /\ UNCHANGED <<tracker_vars, pushers>>

\* decide sending unless the decision is Some(false).
decide_unless_false ==
    /\ pc = "fold"
    /\ idx > Len(actions[1])
    /\ IF notify # Some(FALSE)
       THEN /\ pc' = "send_notice"
            /\ UNCHANGED result
       ELSE Return(Ok("()"))
    /\ UNCHANGED <<unread, pusher, pdu, actions, idx, notify, tweaks, notifi,
                   requests, response, sent>>
    /\ UNCHANGED <<tracker_vars, pushers>>

\* decide sending for whatever decision the list holds.
decide_any_decision ==
    /\ pc = "fold"
    /\ idx > Len(actions[1])
    /\ IF notify # None
       THEN /\ pc' = "send_notice"
            /\ UNCHANGED result
       ELSE Return(Ok("()"))
    /\ UNCHANGED <<unread, pusher, pdu, actions, idx, notify, tweaks, notifi,
                   requests, response, sent>>
    /\ UNCHANGED <<tracker_vars, pushers>>

\* if notify == Some(true) { send_notice(..).await? }  Ok(())
decide ==
    /\ pc = "fold"
    /\ idx > Len(actions[1])
    /\ IF notify = Some(TRUE)
       THEN /\ pc' = "send_notice"
            /\ UNCHANGED result
       ELSE Return(Ok("()"))
    /\ UNCHANGED <<unread, pusher, pdu, actions, idx, notify, tweaks, notifi,
                   requests, response, sent>>
    /\ UNCHANGED <<tracker_vars, pushers>>

\* ------------------------------------------------------------ send_notice

\* Device::new
Device_new(app_id, pushkey) ==
    [app_id |-> app_id, pushkey |-> pushkey,
     data |-> [default_payload |-> "null", format |-> None],
     tweaks |-> <<>>]

\* Notification::new
Notification_new(devices) ==
    [devices |-> devices, prio |-> "High", event_id |-> None, room_id |-> None,
     counts |-> [unread |-> 0, missed_calls |-> 0],
     sender |-> None, event_type |-> None, content |-> None,
     user_is_target |-> FALSE, sender_display_name |-> None, room_name |-> None]

event_id_only(http) == http.format = Some("event_id_only")

\* Priority with any highlight tweak, true or false, raising it.
Priority_any_highlight(tw, event) ==
    IF \/ event.kind = "m.room.encrypted"
       \/ \E i \in 1..Len(tw) : tw[i] \in Tweaks
    THEN "High"
    ELSE "Low"

\* Priority looking at the kind of the event alone.
Priority_kind_only(tw, event) ==
    IF event.kind = "m.room.encrypted" THEN "High" ELSE "Low"

\* The priority of the notification.
Priority(tw, event) ==
    IF \/ event.kind = "m.room.encrypted"
       \/ \E i \in 1..Len(tw) : tw[i] \in {"Highlight(true)", "Sound"}
    THEN "High"
    ELSE "Low"

\* BuildDevice attaching the tweaks in every format.
BuildDevice_always_tweaks(p, tw) ==
    [Device_new(p.app_id, p.pushkey) EXCEPT
        !.data = [default_payload |-> p.default_payload, format |-> p.format],
        !.tweaks = tw]

\* The device of the notification.
BuildDevice(p, tw) ==
    LET device == [Device_new(p.app_id, p.pushkey) EXCEPT
                      !.data = [default_payload |-> p.default_payload,
                                format |-> p.format]]
    IN  IF ~event_id_only(p) THEN [device EXCEPT !.tweaks = tw] ELSE device

\* The notification as it stands where the two formats part.
BuildCommon(u, p, tw, event) ==
    [Notification_new(<<BuildDevice(p, tw)>>) EXCEPT
        !.prio = Priority(tw, event),
        !.event_id = Some(event.event_id),
        !.room_id = Some(event.room_id),
        !.counts = [unread |-> u, missed_calls |-> 0]]

\* What the full format adds before the display name lookup.
BuildFull(n, event, content) ==
    [n EXCEPT
        !.sender = Some(event.sender),
        !.event_type = Some(event.kind),
        !.content = content,
        !.user_is_target =
            IF event.kind = "m.room.member"
            THEN event.state_key = Some(event.sender)
            ELSE n.user_is_target]

\* Option<String> results of the lookups.
DisplayNames == {None, Some("Sender")}
RoomNames == {None, Some("Room")}

\* PusherKind::Http(http): the notification is built and sent.
send_notice_http ==
    LET common == BuildCommon(unread, pusher, tweaks, pdu) IN
    IF event_id_only(pusher)
    THEN /\ notifi' = Some(common)
         /\ pc' = "send_request"
         /\ UNCHANGED result
    ELSE \E content \in {None, Some("content")} :
         LET full == BuildFull(common, pdu, content) IN
         \* services().users.displayname(&event.sender)?
         \/ /\ notifi' = Some(full)
            /\ Return(StorageError)
         \/ \E name \in DisplayNames :
            LET named == [full EXCEPT !.sender_display_name = name] IN
            \* room_state_get(room, RoomName, "")?
            \/ /\ notifi' = Some(named)
               /\ Return(StorageError)
            \* serde_json::from_str::<RoomNameEventContent>
            \/ /\ notifi' = Some(named)
               /\ Return(bad_database("Invalid room name event in database."))
            \/ \E room_name \in RoomNames :
                  /\ notifi' = Some([named EXCEPT !.room_name = room_name])
                  /\ pc' = "send_request"
                  /\ UNCHANGED result

\* send_notice_other refusing the kinds it does not deliver to.
send_notice_other_refuses ==
    /\ Return(Err("Unimplemented", "pusher kind"))
    /\ UNCHANGED notifi

\* PusherKind::Email(_) => Ok(()),  _ => Ok(())
send_notice_other ==
    /\ Return(Ok("()"))
    /\ UNCHANGED notifi

send_notice ==
    /\ pc = "send_notice"
    /\ IF pusher.kind = "Http" THEN send_notice_http ELSE send_notice_other
    /\ UNCHANGED <<unread, pusher, pdu, actions, idx, notify, tweaks, requests,
                   response, sent>>
    /\ UNCHANGED <<tracker_vars, pushers>>

\* ----------------------------------------------------------- send_request

\* destination.replace("/_matrix/push/v1/notify", "")
Destination(url) == SelectSeq(url, LAMBDA seg : seg # LegacySuffix)

\* try_into_http_request succeeds when base url and path make a valid uri.
ValidDestination(destination) ==
    /\ destination # <<>>
    /\ destination[1] = "https://gw"

\* IncomingResponse::try_from_http_response of the notification endpoint, as
\* ruma generates it: a response with a status of 400 or more becomes a
\* FromHttpResponseError::Server, any other has its body deserialized.
try_from_http_response(http_response) ==
    IF http_response.status < 400
    THEN IF Decodable(http_response.body)
         THEN Ok(Decode(http_response.body))
         ELSE Err("FromHttpResponseError", "Deserialization")
    ELSE Err("FromHttpResponseError", "Server")

\* HandleResponse giving up on every status but 200 before decoding.
HandleResponse_status_fatal(http_response) ==
    IF http_response.status # 200
    THEN BadServerResponse("Push gateway returned bad response.")
    ELSE IF Decodable(http_response.body)
         THEN Ok(Decode(http_response.body))
         ELSE BadServerResponse("Push gateway returned bad response.")

\* The match on the client's result: what send_request returns.
HandleResponse(http_response) ==
    LET decoded == try_from_http_response(http_response) IN
    IF decoded.tag = "Ok"
    THEN decoded
    ELSE BadServerResponse("Push gateway returned bad response.")

\* send_request up to the await of the client: the request is built and, when
\* it could be built, executed.
send_request ==
    /\ pc = "send_request"
    /\ LET destination == Destination(pusher.url) IN
       IF ValidDestination(destination)
       THEN /\ requests' = Append(requests,
                               [destination |-> destination, body |-> notifi[1]])
            /\ pc' = "await"
            /\ UNCHANGED <<sent, result>>
       ELSE /\ sent' = Some(BadServerResponse("Invalid destination"))
            /\ Return(BadServerResponse("Invalid destination"))
            /\ UNCHANGED requests
    /\ UNCHANGED <<unread, pusher, pdu, actions, idx, notify, tweaks, notifi,
                   response>>
    /\ UNCHANGED <<tracker_vars, pushers>>

\* receive_error executing the request once more instead of returning.
receive_error_retries ==
    /\ pc = "await"
    /\ pc' = "send_request"
    /\ UNCHANGED <<unread, pusher, pdu, actions, idx, notify, tweaks, notifi,
                   requests, response, sent, result>>
    /\ UNCHANGED <<tracker_vars, pushers>>

\* receive_error logging the failure and letting the call succeed.
receive_error_swallowed ==
    /\ pc = "await"
    /\ sent' = Some(ReqwestError)
    /\ Return(Ok("()"))
    /\ UNCHANGED <<unread, pusher, pdu, actions, idx, notify, tweaks, notifi,
                   requests, response>>
    /\ UNCHANGED <<tracker_vars, pushers>>

\* The client comes back with an error.
receive_error ==
    /\ pc = "await"
    /\ sent' = Some(ReqwestError)
    /\ Return(ReqwestError)
    /\ UNCHANGED <<unread, pusher, pdu, actions, idx, notify, tweaks, notifi,
                   requests, response>>
    /\ UNCHANGED <<tracker_vars, pushers>>

\* receive_response deleting the pusher whose pushkey the gateway rejected.
receive_response_removes_rejected ==
    /\ pc = "await"
    /\ \E status \in Statuses, bytes \in Bodies, read \in BOOLEAN :
       LET body == IF read THEN bytes ELSE BodyEmpty
           http_response == [status |-> status, body |-> body]
           r == HandleResponse(http_response)
       IN  /\ response' = Some(http_response)
           /\ sent' = Some(r)
           /\ Return(IF r.tag = "Ok" THEN Ok("()") ELSE r)
           /\ pushers' = IF r = Ok(Decode(BodyRejected))
                         THEN pushers \ {pusher} ELSE pushers
    /\ UNCHANGED <<unread, pusher, pdu, actions, idx, notify, tweaks, notifi,
                   requests>>
    /\ UNCHANGED tracker_vars

\* The client comes back with a response: its body is read (a failing read
\* leaves an empty body) and handed, with the status, to the decoder.
receive_response ==
    /\ pc = "await"
    /\ \E status \in Statuses, bytes \in Bodies, read \in BOOLEAN :
       LET body == IF read THEN bytes ELSE BodyEmpty
           http_response == [status |-> status, body |-> body]
           r == HandleResponse(http_response)
       IN  /\ response' = Some(http_response)
           /\ sent' = Some(r)
           /\ Return(IF r.tag = "Ok" THEN Ok("()") ELSE r)
    /\ UNCHANGED <<unread, pusher, pdu, actions, idx, notify, tweaks, notifi,
                   requests>>
    /\ UNCHANGED <<tracker_vars, pushers>>

Next ==
    \/ room_state_get_power_levels
    \/ get_actions
    \/ fold
    \/ decide
    \/ send_notice
    \/ send_request
    \/ receive_error
    \/ receive_response

Spec == Init /\ [][Next]_vars


\* -------------------------------------------------- the relation store (db)

\* The slices of event ids a caller can hand to mark_as_referenced.
Batches == UNION {[1..n -> Events] : n \in 0..MaxBatch}

Bool(b) == IF b THEN "true" ELSE "false"

\* Data::mark_as_referenced: all the listed events of the room become marked.
db_mark_as_referenced(room_id, event_ids) ==
    referencedevents \cup {<<room_id, event_ids[i]>> : i \in 1..Len(event_ids)}

\* Data::is_event_referenced
db_is_event_referenced(room_id, event_id) ==
    <<room_id, event_id>> \in referencedevents

\* Data::mark_event_soft_failed
db_mark_event_soft_failed(event_id) == softfailedeventids \cup {event_id}

\* Data::is_event_soft_failed
db_is_event_soft_failed(event_id) == event_id \in softfailedeventids

\* ------------------------------------------------- pdu_metadata::Service

\* The call is recorded with what it returned, for its caller to read.
Returns(op, room_id, event_ids, r) ==
    /\ call = NoCall
    /\ call' = [op |-> op, room |-> room_id, ids |-> event_ids]
    /\ ret' = Some(r)

\* mark_as_referenced marking the events one by one, a failure leaving the
\* ones before it marked.
mark_as_referenced_partial(room_id, event_ids) ==
    /\ \/ /\ referencedevents' = db_mark_as_referenced(room_id, event_ids)
          /\ Returns("mark_as_referenced", room_id, event_ids, Ok("()"))
       \/ \E n \in 0..Len(event_ids) :
          /\ referencedevents' = db_mark_as_referenced(room_id, SubSeq(event_ids, 1, n))
          /\ Returns("mark_as_referenced", room_id, event_ids, StorageError)
    /\ UNCHANGED <<softfailedeventids, shorteventid, relations>>
    /\ UNCHANGED <<dispatch_vars, pushers>>

\* mark_as_referenced writing the batch over what the room had marked.
mark_as_referenced_overwrite(room_id, event_ids) ==
    /\ \/ /\ referencedevents' =
                {<<room_id, event_ids[i]>> : i \in 1..Len(event_ids)}
                \cup {x \in referencedevents : x[1] # room_id}
          /\ Returns("mark_as_referenced", room_id, event_ids, Ok("()"))
       \/ /\ UNCHANGED referencedevents
          /\ Returns("mark_as_referenced", room_id, event_ids, StorageError)
    /\ UNCHANGED <<softfailedeventids, shorteventid, relations>>
    /\ UNCHANGED <<dispatch_vars, pushers>>

\* The store either takes the whole batch or fails and takes none of it.
mark_as_referenced(room_id, event_ids) ==
    /\ \/ /\ referencedevents' = db_mark_as_referenced(room_id, event_ids)
          /\ Returns("mark_as_referenced", room_id, event_ids, Ok("()"))
       \/ /\ UNCHANGED referencedevents
          /\ Returns("mark_as_referenced", room_id, event_ids, StorageError)
    /\ UNCHANGED <<softfailedeventids, shorteventid, relations>>
    /\ UNCHANGED <<dispatch_vars, pushers>>

is_event_referenced(room_id, event_id) ==
    /\ \/ Returns("is_event_referenced", room_id, <<event_id>>,
                  Ok(Bool(db_is_event_referenced(room_id, event_id))))
       \/ Returns("is_event_referenced", room_id, <<event_id>>, StorageError)
    /\ UNCHANGED <<referencedevents, softfailedeventids, shorteventid, relations>>
    /\ UNCHANGED <<dispatch_vars, pushers>>

\* mark_event_soft_failed keeping both flags under the one key of the event.
mark_event_soft_failed_shared_key(event_id) ==
    /\ \/ /\ softfailedeventids' = db_mark_event_soft_failed(event_id)
          /\ referencedevents' = referencedevents \cup {<<r, event_id>> : r \in Rooms}
          /\ Returns("mark_event_soft_failed", "-", <<event_id>>, Ok("()"))
       \/ /\ UNCHANGED <<softfailedeventids, referencedevents>>
          /\ Returns("mark_event_soft_failed", "-", <<event_id>>, StorageError)
    /\ UNCHANGED <<shorteventid, relations>>
    /\ UNCHANGED <<dispatch_vars, pushers>>

mark_event_soft_failed(event_id) ==
    /\ \/ /\ softfailedeventids' = db_mark_event_soft_failed(event_id)
          /\ Returns("mark_event_soft_failed", "-", <<event_id>>, Ok("()"))
       \/ /\ UNCHANGED softfailedeventids
          /\ Returns("mark_event_soft_failed", "-", <<event_id>>, StorageError)
    /\ UNCHANGED <<referencedevents, shorteventid, relations>>
    /\ UNCHANGED <<dispatch_vars, pushers>>

is_event_soft_failed(event_id) ==
    /\ \/ Returns("is_event_soft_failed", "-", <<event_id>>,
                  Ok(Bool(db_is_event_soft_failed(event_id))))
       \/ Returns("is_event_soft_failed", "-", <<event_id>>, StorageError)
    /\ UNCHANGED <<referencedevents, softfailedeventids, shorteventid, relations>>
    /\ UNCHANGED <<dispatch_vars, pushers>>

\* get_or_create_shorteventid: the short id the event has, or the next free one.
Allocated(map, event_id) ==
    IF map[event_id] # 0 THEN map
    ELSE [map EXCEPT ![event_id] =
             1 + Cardinality({e \in Events : map[e] # 0})]

\* Data::add_relation: the store keeps one edge per pair.
db_add_relation(from, to) == relations \cup {<<from, to>>}

\* add_relation giving an event a new short id at every call.
add_relation_fresh_ids(from, to) ==
    LET Fresh(map, e) ==
            [map EXCEPT ![e] = 1 + Cardinality({x \in Events : map[x] # 0})
                                 + map[e]]
        first == Fresh(shorteventid, from)
        second == Fresh(first, to)
    IN  /\ \/ /\ UNCHANGED <<shorteventid, relations>>
              /\ Returns("add_relation", "-", <<from, to>>, StorageError)
           \/ /\ shorteventid' = second
              /\ relations' = db_add_relation(second[from], second[to])
              /\ Returns("add_relation", "-", <<from, to>>, Ok("()"))
        /\ UNCHANGED <<referencedevents, softfailedeventids>>
        /\ UNCHANGED <<dispatch_vars, pushers>>

\* add_relation giving to its short id before from.
add_relation_to_first(from, to) ==
    LET first == Allocated(shorteventid, to)
        second == Allocated(first, from)
    IN  /\ \/ /\ UNCHANGED <<shorteventid, relations>>
              /\ Returns("add_relation", "-", <<from, to>>, StorageError)
           \/ /\ shorteventid' = first
              /\ UNCHANGED relations
              /\ Returns("add_relation", "-", <<from, to>>, StorageError)
           \/ /\ shorteventid' = second
              /\ UNCHANGED relations
              /\ Returns("add_relation", "-", <<from, to>>, StorageError)
           \/ /\ shorteventid' = second
              /\ relations' = db_add_relation(second[from], second[to])
              /\ Returns("add_relation", "-", <<from, to>>, Ok("()"))
        /\ UNCHANGED <<referencedevents, softfailedeventids>>
        /\ UNCHANGED <<dispatch_vars, pushers>>

\* add_relation: from is given its short id, then to, then the edge is stored;
\* each of the three can fail and ends the call where it fails.
add_relation(from, to) ==
    LET first == Allocated(shorteventid, from)
        second == Allocated(first, to)
    IN  /\ \/ /\ UNCHANGED <<shorteventid, relations>>
              /\ Returns("add_relation", "-", <<from, to>>, StorageError)
           \/ /\ shorteventid' = first
              /\ UNCHANGED relations
              /\ Returns("add_relation", "-", <<from, to>>, StorageError)
           \/ /\ shorteventid' = second
              /\ UNCHANGED relations
              /\ Returns("add_relation", "-", <<from, to>>, StorageError)
           \/ /\ shorteventid' = second
              /\ relations' = db_add_relation(second[from], second[to])
              /\ Returns("add_relation", "-", <<from, to>>, Ok("()"))
        /\ UNCHANGED <<referencedevents, softfailedeventids>>
        /\ UNCHANGED <<dispatch_vars, pushers>>

\* The caller has read the returned value and goes on to its next call.
Returned ==
    /\ call # NoCall
    /\ call' = NoCall
    /\ ret' = None
    /\ UNCHANGED <<referencedevents, softfailedeventids, shorteventid, relations>>
    /\ UNCHANGED <<dispatch_vars, pushers>>

NextTracker ==
    \/ \E room_id \in Rooms, event_ids \in Batches :
          mark_as_referenced(room_id, event_ids)
    \/ \E room_id \in Rooms, event_id \in Events :
          is_event_referenced(room_id, event_id)
    \/ \E event_id \in Events : mark_event_soft_failed(event_id)
    \/ \E event_id \in Events : is_event_soft_failed(event_id)
    \/ Returned

\* The tracker is called while no dispatch is under way.
InitTracker ==
    /\ Init
    /\ unread = 0
    /\ pusher = [kind |-> "Email", url |-> <<>>, format |-> None,
                 app_id |-> "app", pushkey |-> "key", default_payload |-> "-"]
    /\ pdu = [event_id |-> "$ev", room_id |-> "!room", sender |-> "@sender",
              kind |-> "m.room.message", state_key |-> None]

SpecTracker == InitTracker /\ [][NextTracker]_vars

NextRelations ==
    \/ \E from \in Events, to \in Events : add_relation(from, to)
    \/ Returned

SpecRelations == InitTracker /\ [][NextRelations]_vars


\* ======================================================= claims, dispatch

\* The for loop ran to its end: the action list is folded into a decision.
Resolved == actions # None /\ pc # "fold" /\ idx > Len(actions[1])

ResolvedNotify == Resolved /\ notify = Some(TRUE)

Done == pc = "done"

\* C1: once the evaluated action list holds two or more notify-class actions
\* (Notify, DontNotify, Coalesce, wherever they stand among the SetTweak
\* actions), no request is ever executed against the gateway and the call
\* returns the data-integrity error of a malformed push rule.
C1_TwoNotifyClassIsError ==
    (actions # None /\ CountNotifyClass(actions[1]) >= 2) =>
        /\ requests = <<>>
        /\ pc \in {"fold", "done"}
        /\ Done => result = Some(bad_database(MalformedPushrule))

C1_Witness ==
    /\ Done
    /\ actions = Some(<<Coalesce, SetTweak("Sound"), Notify>>)
    /\ pusher.kind = "Http"
    /\ result = Some(bad_database(MalformedPushrule))

\* C2 as claimed: with exactly one notify-class action in the evaluated list
\* the call never ends in a data-integrity error, whatever is stored.
C2_NoIntegrityErrorAsClaimed ==
    (Done /\ actions # None /\ CountNotifyClass(actions[1]) = 1) =>
        result[1].kind # "BadDatabase"

\* C2, amended: with exactly one notify-class action in the evaluated list the
\* call never ends in the malformed-push-rule error, and the one data-integrity
\* error it can end in is the unparsable room name event, met while building
\* the full-format notification of an http pusher for a Notify, before any
\* request is executed.
C2_OnlyRoomNameIntegrityError ==
    (Done /\ actions # None /\ CountNotifyClass(actions[1]) = 1) =>
        /\ result # Some(bad_database(MalformedPushrule))
        /\ result[1].kind = "BadDatabase" =>
              /\ result = Some(bad_database("Invalid room name event in database."))
              /\ Notify \in {actions[1][i] : i \in 1..Len(actions[1])}
              /\ pusher.kind = "Http"
              /\ pusher.format # Some("event_id_only")
              /\ requests = <<>>

C2_Witness ==
    /\ Done
    /\ actions = Some(<<SetTweak("Sound"), Notify>>)
    /\ result = Some(bad_database("Invalid room name event in database."))

\* C3: when the evaluated action list holds no notify-class action (it is empty
\* or all SetTweak) no request is ever executed and the call returns success.
C3_NoNotifyClassNoCall ==
    (actions # None /\ CountNotifyClass(actions[1]) = 0) =>
        /\ requests = <<>>
        /\ pc \in {"fold", "done"}
        /\ Done => result = Some(Ok("()"))

C3_Witness ==
    /\ Done
    /\ actions = Some(<<SetTweak("Sound"), SetTweak("Highlight(true)")>>)
    /\ pusher.kind = "Http"
    /\ pusher.url[1] = "https://gw"
    /\ result = Some(Ok("()"))

\* C4: when the decision is notify and the pusher is of the email kind or of any
\* kind but http, no request is ever executed and the call returns success,
\* whatever the tweaks and the event.
C4_OtherKindsNoOp ==
    (ResolvedNotify /\ pusher.kind # "Http") =>
        /\ requests = <<>>
        /\ pc \in {"send_notice", "done"}
        /\ Done => result = Some(Ok("()"))

C4_Witness ==
    /\ Done
    /\ ResolvedNotify
    /\ pusher.kind = "Email"
    /\ tweaks = <<"Sound", "Highlight(true)">>
    /\ pdu.kind = "m.room.encrypted"
    /\ result = Some(Ok("()"))

C9_EventIdOnlyPayload ==
    (requests # <<>> /\ pusher.format = Some("event_id_only")) =>
        LET n == requests[1].body IN
        /\ Len(n.devices) = 1
        /\ n.devices[1].tweaks = <<>>
        /\ n.event_id = Some(pdu.event_id)
        /\ n.room_id = Some(pdu.room_id)
        /\ n.sender = None
        /\ n.event_type = None
        /\ n.content = None
        /\ n.room_name = None
        /\ n.sender_display_name = None
        /\ n.user_is_target = FALSE

C9_Witness ==
    /\ requests # <<>>
    /\ pusher.format = Some("event_id_only")
    /\ tweaks = <<"Highlight(true)", "Sound">>
    /\ pdu.kind = "m.room.member"
    /\ pdu.state_key = Some(pdu.sender)
    /\ ResolvedNotify

\* The evaluated list sets a tweak that raises the priority.
RaisingTweak ==
    \E i \in 1..Len(actions[1]) :
        actions[1][i] \in {SetTweak("Highlight(true)"), SetTweak("Sound")}

\* C10: the notification executed for an http pusher of a format other than
\* event-id-only has priority High exactly when the event is of the encrypted
\* kind or the action list sets a highlight=true tweak or a sound tweak, and
\* priority Low otherwise.
C10_PriorityFull ==
    (requests # <<>> /\ pusher.format # Some("event_id_only")) =>
        LET n == requests[1].body IN
        /\ n.prio \in {"High", "Low"}
        /\ n.prio = "High" <=> (pdu.kind = "m.room.encrypted" \/ RaisingTweak)

C10_Witness ==
    /\ requests # <<>>
    /\ pusher.format = None
    /\ pdu.kind = "m.room.message"
    /\ actions = Some(<<SetTweak("Highlight(false)"), Notify>>)
    /\ requests[1].body.prio = "Low"
    /\ requests[1].body.devices[1].tweaks = <<"Highlight(false)">>


\* ======================================================== claims, tracker

\* The step is a call of op: the caller had no call under way and has one now.
Calls(op) == call = NoCall /\ call'.op = op

\* The (room, event) pairs the call lists.
Listed(c) == {<<c.room, c.ids[i]>> : i \in 1..Len(c.ids)}

\* What a successful read returned.
Read(r) == r[1].tag = "Ok" /\ r[1].value = "true"

C7_MarkedStaysMarked ==
    /\ referencedevents = {}
    /\ [][/\ referencedevents \subseteq referencedevents'
          /\ referencedevents' # referencedevents =>
                /\ Calls("mark_as_referenced")
                /\ ret' = Some(Ok("()"))
                /\ referencedevents' \ referencedevents \subseteq Listed(call')
          /\ (Calls("mark_as_referenced") /\ ret' = Some(Ok("()"))) =>
                Listed(call') \subseteq referencedevents'
          /\ (Calls("is_event_referenced") /\ ret'[1].tag = "Ok") =>
                (Read(ret') <=> <<call'.room, call'.ids[1]>> \in referencedevents)
         ]_vars

C7_Witness ==
    /\ call = [op |-> "is_event_referenced", room |-> "!a", ids |-> <<2>>]
    /\ ret = Some(Ok("true"))
    /\ referencedevents = {<<"!a", 1>>, <<"!a", 2>>}

\* C8: mark_event_soft_failed changes no referenced mark of any room and, when it
\* succeeds, leaves the event soft-failed and every other event as it was (so a
\* second mark of the same event changes nothing); mark_as_referenced changes no
\* soft-failed flag; is_event_soft_failed returns true exactly for the
\* soft-failed events.
C8_FlagsIndependent ==
    [][/\ Calls("mark_event_soft_failed") =>
            /\ referencedevents' = referencedevents
            /\ ret' = Some(Ok("()")) =>
                  softfailedeventids' = softfailedeventids \cup {call'.ids[1]}
            /\ ret'[1].tag = "Err" => softfailedeventids' = softfailedeventids
       /\ Calls("mark_as_referenced") => softfailedeventids' = softfailedeventids
       /\ (Calls("is_event_soft_failed") /\ ret'[1].tag = "Ok") =>
            (Read(ret') <=> call'.ids[1] \in softfailedeventids)
       /\ (Calls("is_event_referenced") /\ ret'[1].tag = "Ok") =>
            (Read(ret') <=> <<call'.room, call'.ids[1]>> \in referencedevents)
      ]_vars

C8_Witness ==
    /\ call = [op |-> "mark_event_soft_failed", room |-> "-", ids |-> <<1>>]
    /\ ret = Some(Ok("()"))
    /\ softfailedeventids = {1}
    /\ referencedevents = {<<"!a", 2>>}

\* C11: a send_push_notice call executes at most one request against the
\* gateway; once the client has come back with an error, or with a response the
\* decoder does not take, the call has ended with that error and its one request
\* stays the only one.
C11_NoRetry ==
    /\ Len(requests) <= 1
    /\ (sent # None /\ sent[1].tag = "Err") =>
          /\ Done
          /\ result = sent
          /\ sent[1].kind \in {"ReqwestError", "BadServerResponse"}
    /\ (pc = "await" \/ response # None \/ sent = Some(ReqwestError)) =>
          Len(requests) = 1

C11_Witness ==
    /\ Done
    /\ sent = Some(ReqwestError)
    /\ result = Some(ReqwestError)
    /\ Len(requests) = 1

\* C13: for a notify decision and an http pusher the call returns success only
\* when send_request returned a decoded response; an error of send_request is
\* returned as it is, and a call that ended before any request was built into
\* one (a failing display name or room state lookup, an unparsable room name
\* event) returns that storage or data-integrity error.
C13_FailuresPropagate ==
    (Done /\ ResolvedNotify /\ pusher.kind = "Http") =>
        /\ result[1].tag = "Ok" <=> (sent # None /\ sent[1].tag = "Ok")
        /\ (sent # None /\ sent[1].tag = "Err") => result = sent
        /\ sent = None =>
              /\ requests = <<>>
              /\ result \in {Some(StorageError),
                             Some(bad_database("Invalid room name event in database."))}
        /\ result = Some(bad_database("Invalid room name event in database.")) =>
              (sent = None /\ ~event_id_only(pusher))

C13_Witness ==
    /\ Done
    /\ ResolvedNotify
    /\ pusher.kind = "Http"
    /\ requests # <<>>
    /\ response = Some([status |-> 200, body |-> BodyGarbage])
    /\ result = Some(BadServerResponse("Push gateway returned bad response."))

\* C14: when the for loop has run to its end, the tweak collection holds the
\* tweak of every SetTweak of the evaluated list, those before and those after
\* the one notify-class action, in the order of the list and nothing else; the
\* device of a full-format notification carries exactly that collection.
C14_AllTweaksAccumulate ==
    /\ Resolved => tweaks = TweaksOf(actions[1])
    /\ (requests # <<>> /\ pusher.format # Some("event_id_only")) =>
          requests[1].body.devices[1].tweaks = TweaksOf(actions[1])

C14_Witness ==
    /\ requests # <<>>
    /\ pusher.format = None
    /\ actions = Some(<<SetTweak("Sound"), Notify, SetTweak("Highlight(false)")>>)
    /\ requests[1].body.devices[1].tweaks = <<"Sound", "Highlight(false)">>

\* C16: a request is executed, and send_notice is entered at all, only after the
\* for loop has run to its end with exactly one notify-class action in the list,
\* that action being Notify; when the one notify-class action is DontNotify or
\* Coalesce the call returns success and no request is ever executed.
C16_OnlySoleNotifySends ==
    /\ (requests # <<>> \/ notifi # None \/ pc \in {"send_notice", "send_request", "await"}) =>
          /\ actions # None
          /\ idx = Len(actions[1]) + 1
          /\ CountNotifyClass(actions[1]) = 1
          /\ \E i \in 1..Len(actions[1]) : actions[1][i] = Notify
    /\ (actions # None /\ CountNotifyClass(actions[1]) = 1
          /\ \A i \in 1..Len(actions[1]) : actions[1][i] # Notify) =>
          /\ requests = <<>>
          /\ pc \in {"fold", "done"}
          /\ Done => result = Some(Ok("()"))

C16_Witness ==
    /\ Done
    /\ actions = Some(<<SetTweak("Sound"), Coalesce>>)
    /\ pusher.kind = "Http"
    /\ pusher.url[1] = "https://gw"
    /\ result = Some(Ok("()"))
    /\ requests = <<>>

\* The event-id-only notification of a dispatch of this event, to this pusher,
\* with this unread count, with the priority given.
EventIdOnlyNotification(prio) ==
    [devices |-> <<[app_id |-> pusher.app_id, pushkey |-> pusher.pushkey,
                    data |-> [default_payload |-> pusher.default_payload,
                              format |-> pusher.format],
                    tweaks |-> <<>>]>>,
     prio |-> prio,
     event_id |-> Some(pdu.event_id), room_id |-> Some(pdu.room_id),
     counts |-> [unread |-> unread, missed_calls |-> 0],
     sender |-> None, event_type |-> None, content |-> None,
     user_is_target |-> FALSE, sender_display_name |-> None, room_name |-> None]

\* C17 as claimed: the notification executed for an event-id-only pusher is the
\* one the dispatch of the same event with the same unread count and no tweaks
\* executes, whatever tweaks this dispatch accumulated.
C17_TweaksNeverShowAsClaimed ==
    (requests # <<>> /\ pusher.format = Some("event_id_only")) =>
        requests[1].body =
            EventIdOnlyNotification(
                IF pdu.kind = "m.room.encrypted" THEN "High" ELSE "Low")

\* C17, amended: the notification executed for an event-id-only pusher is
\* determined by the pusher, the event, the unread count and its priority: the
\* device list (with no tweaks), the counts, the event id and the room id do not
\* depend on the accumulated tweaks, while the priority does, being High when
\* the event is of the encrypted kind or a highlight=true or sound tweak was
\* accumulated and Low otherwise.
C17_OnlyPriorityShowsTweaks ==
    (requests # <<>> /\ pusher.format = Some("event_id_only")) =>
        requests[1].body =
            EventIdOnlyNotification(
                IF pdu.kind = "m.room.encrypted" \/ RaisingTweak
                THEN "High" ELSE "Low")

C17_Witness ==
    /\ requests # <<>>
    /\ pusher.format = Some("event_id_only")
    /\ pdu.kind = "m.room.message"
    /\ tweaks = <<"Sound">>
    /\ requests[1].body.prio = "High"
    /\ requests[1].body.devices[1].tweaks = <<>>

\* C15: no step of a send_push_notice call, from its entry to its return and
\* wherever it may be abandoned in between, changes the pusher store, the
\* edges of the relation store, the referenced marks or the soft-failed flags.
C15_DispatchWritesNothing ==
    [][/\ pushers' = pushers
       /\ relations' = relations
       /\ referencedevents' = referencedevents
       /\ softfailedeventids' = softfailedeventids
      ]_vars

C15_Witness ==
    /\ Done
    /\ requests # <<>>
    /\ sent = Some(Ok("Response{rejected:[key]}"))
    /\ result = Some(Ok("()"))
    /\ pushers = {pusher}
    /\ relations = {}
    /\ referencedevents = {}
    /\ softfailedeventids = {}

\* ====================================================== claims, relations

\* C12: an add_relation call never changes the short id an event already has;
\* when it succeeds the edge set is the one before it with the edge of the two
\* short ids in it, so a call for a pair whose edge is stored leaves short ids
\* and edges as they are; and whatever was added before, a call can succeed.
C12_AddRelationIdempotent ==
    /\ [](call = NoCall =>
            \A from \in Events, to \in Events :
                ENABLED (add_relation(from, to) /\ ret' = Some(Ok("()"))))
    /\ [][Calls("add_relation") =>
            LET from == call'.ids[1]
                to == call'.ids[2]
                edge == <<shorteventid'[from], shorteventid'[to]>>
            IN  /\ \A e \in Events :
                      shorteventid[e] # 0 => shorteventid'[e] = shorteventid[e]
                /\ ret' = Some(Ok("()")) =>
                      /\ shorteventid'[from] # 0
                      /\ shorteventid'[to] # 0
                      /\ relations' = relations \cup {edge}
                /\ (ret' = Some(Ok("()")) /\ shorteventid[from] # 0
                      /\ shorteventid[to] # 0
                      /\ <<shorteventid[from], shorteventid[to]>> \in relations) =>
                      /\ relations' = relations
                      /\ shorteventid' = shorteventid
         ]_vars

C12_Witness ==
    /\ call = NoCall
    /\ shorteventid[1] = 1
    /\ shorteventid[2] = 2
    /\ relations = {<<1, 2>>}
    /\ ENABLED (/\ add_relation(1, 2)
                /\ ret' = Some(Ok("()"))
                /\ relations' = relations
                /\ shorteventid' = shorteventid)

\* C18: an add_relation call changes the edge set only when it returns success,
\* with both events holding a short id; a call that returns an error leaves the
\* edge set as it was; and to is never given a short id while from has none,
\* from being given the smaller one when both are new.
C18_EdgeAfterBothIds ==
    [][Calls("add_relation") =>
          LET from == call'.ids[1]
              to == call'.ids[2]
          IN  /\ relations' # relations =>
                    /\ ret' = Some(Ok("()"))
                    /\ shorteventid'[from] # 0
                    /\ shorteventid'[to] # 0
              /\ ret'[1].tag = "Err" => relations' = relations
              /\ (shorteventid[to] = 0 /\ shorteventid'[to] # 0) =>
                    shorteventid'[from] # 0
              /\ (shorteventid[from] = 0 /\ shorteventid[to] = 0
                    /\ shorteventid'[to] # 0 /\ from # to) =>
                    shorteventid'[from] < shorteventid'[to]
      ]_vars

C18_Witness ==
    /\ call = [op |-> "add_relation", room |-> "-", ids |-> <<1, 2>>]
    /\ ret = Some(StorageError)
    /\ shorteventid[1] # 0
    /\ shorteventid[2] = 0
    /\ relations = {}

====
